---- MODULE Spec2Model ----
(***************************************************************************)
(* State-machine model of the chat front-end of DA-agent.                  *)
(*                                                                         *)
(*   AgentApp  (src/chat/frontend/src/AgentApp.tsx) with the API client    *)
(*             it calls (src/unnamed/part_010): specification Spec.        *)
(*   ChatPage  (src/unnamed/part_004:330-667), the page that renders the   *)
(*             thread with ChatMessage: specification SpecChat.            *)
(*                                                                         *)
(* Only one of the two components is mounted in a session; the variables   *)
(* of the other keep their initial values.                                 *)
(*                                                                         *)
(* A React handler runs to its first await without interruption; every     *)
(* await of an HTTP request splits the handler into the action that issues *)
(* the request and the action that consumes its outcome.  State setters    *)
(* called in one continuation are applied together (React batches them).   *)
(* The backend is the environment: every request either fails or returns a *)
(* response of the declared type (src/chat/frontend/src/types/index.ts),   *)
(* an empty or missing thread_id and an empty or null body included where  *)
(* noted.                                                                  *)
(* Strings are sequences of tokens, so that trimming and concatenation are *)
(* computed rather than assumed.  Thread IDs are positive numbers; Null    *)
(* stands for null, undefined and the empty string where the code only     *)
(* tests truthiness.                                                       *)
(***************************************************************************)
EXTENDS Naturals, Integers, Sequences, FiniteSets, TLC

\* ------------------------------------------------------------------ bounds
\* User interactions (typing, clicks, file selections) in one session.
MaxOps == 5
\* User interactions in one session of the specification with fairness.
MaxLiveOps == 3

\* --------------------------------------------------------------- constants
Null == 0
\* JavaScript's undefined, where the code does more than test truthiness: the
\* thread_id of a response that has no such field (part_010:160).
Undefined == -1
\* The text 'undefined' that storing or interpolating undefined produces
\* (part_010:161, 171).
UndefinedText == -2
NoFile == "null"
NoPath == ""

\* AgentApp.tsx:70-75, the initial settings state.
InitialTimeoutSeconds == 300
InitialRecursionLimit == 100
\* part_010:173-175, the literals sendMessage posts.
DefaultTimeoutSeconds == 120
DefaultRecursionLimit == 100
\* A second position of each slider (AgentApp.tsx:529-560).
OtherRecursionLimit == 200

Models == {"gpt-4o", "o3"}
TimeoutChoices == {DefaultTimeoutSeconds, InitialTimeoutSeconds}
RecursionChoices == {InitialRecursionLimit, OtherRecursionLimit}

\* Values typed into the text field.
InputChoices == {<< >>, <<" ">>, <<"h">>}
Files == {"a.csv"}
UploadedPath == "/uploads/a.csv"
ResponseTexts == {<< >>, <<"ans">>}
ToolInfos == {<< >>, <<"tool">>}

NoResponseText == <<"NO_RESPONSE_RECEIVED">>
SendErrorText == <<"ERROR_TRY_AGAIN">>
UploadErrorText == <<"UPLOAD_ERROR_TRY_AGAIN">>

VARIABLES
    \* AgentApp component state
    messages, userInput, isProcessing, settings, currentToolReferenceId,
    attachment, attachmentPath,
    \* browser and backend
    localStorage, nextThread,
    \* control state: the startup effect (its position, the stored ID it read and
    \* the thread it created) and the user handler in flight
    initPc, savedThreadId, initThread, call,
    \* history: the thread the queries of this conversation go to, what the last
    \* step did, whether the last reset that returned emptied a list holding a
    \* tool record, and the number of user interactions so far
    expectedThread, lastOp, lastResp, resetAfterTool, ops,
    \* ChatPage component state
    threadId, chatMessages, query, isLoading, error, toolInfo,
    \* ChatPage control state: initChat and the handler in flight
    chatPc, chatSaved, chatCall,
    \* ChatPage history: queries started, the query whose tool_calls are stored,
    \* and the outcome of the query that completed last
    queries, toolInfoQuery, lastOutcome

chatVars == << threadId, chatMessages, query, isLoading, error, toolInfo,
               chatPc, chatSaved, chatCall, queries, toolInfoQuery, lastOutcome >>

agentVars == << messages, userInput, isProcessing, settings, currentToolReferenceId,
           attachment, attachmentPath,
           initPc, savedThreadId, initThread, call, expectedThread,
           lastOp, lastResp, resetAfterTool >>

vars == << agentVars, chatVars, localStorage, nextThread, ops >>

\* ------------------------------------------------------------- pure helpers
IsSpace(c) == c = " "

RECURSIVE TrimStart(_)
TrimStart(s) ==
    IF s = << >> THEN << >>
    ELSE IF IsSpace(Head(s)) THEN TrimStart(Tail(s)) ELSE s

RECURSIVE TrimEnd(_)
TrimEnd(s) ==
    IF s = << >> THEN << >>
    ELSE IF IsSpace(s[Len(s)]) THEN TrimEnd(SubSeq(s, 1, Len(s) - 1)) ELSE s

\* String.prototype.trim
Trim(s) == TrimEnd(TrimStart(s))

\* A message of the list (ExtendedMessageType); 0 and "" stand for an absent field.
Msg(role, content, toolRef, refTool, path) ==
    [role |-> role, content |-> content, toolReferenceId |-> toolRef,
     referencedToolId |-> refTool, attachmentPath |-> path]

\* A response of the query endpoint; body is FALSE for an empty response body.
NoResponse == [body |-> FALSE, response |-> << >>, tool_info |-> << >>, thread_id |-> Null]

\* The user handler in flight: which one, the values its closure captured, and
\* for sendMessage the thread and body of the query it posted.
Idle ==
    [h |-> "none", userInput |-> << >>, attachmentPath |-> NoPath, toolRef |-> 0,
     settings |-> [selectedModel |-> "", timeoutSeconds |-> 0, recursionLimit |-> 0],
     thread |-> Null, posts |-> 0,
     request |-> [query |-> << >>, model |-> "", timeout_seconds |-> 0, recursion_limit |-> 0]]

\* ChatPage: toolInfo is null or a non-empty string (only its truthiness is read).
NoToolInfo == << >>
ToolCalls == {<< >>, <<"calls">>}
ChatIdle == [h |-> "none", thread |-> Null, q |-> 0]
\* A message of ChatPage; q is the number of the query it belongs to (0 for a
\* message loaded with the thread).
ChatMsg(role, content, q) == [role |-> role, content |-> content, q |-> q]
\* What getThread can return for a stored thread.
ThreadHistories ==
    {<< >>, <<ChatMsg("user", <<"old">>, 0), ChatMsg("assistant", <<"old answer">>, 0)>>}

\* ---------------------------------------------------------------- initial
Init ==
    /\ messages = << >>
    /\ userInput = << >>
    /\ isProcessing = FALSE
    /\ settings = [selectedModel |-> "gpt-4o",
                   timeoutSeconds |-> InitialTimeoutSeconds,
                   recursionLimit |-> InitialRecursionLimit]
    /\ currentToolReferenceId = 1
    /\ attachment = NoFile
    /\ attachmentPath = NoPath
    \* localStorage survives page loads: empty, or the thread of an earlier session
    /\ localStorage \in {Null, 1}
    /\ nextThread = 2
    /\ initPc = "mount"
    /\ savedThreadId = Null
    /\ initThread = Null
    /\ call = Idle
    /\ expectedThread = Null
    /\ lastOp = "init"
    /\ lastResp = NoResponse
    /\ resetAfterTool = FALSE
    /\ ops = 0
    \* ChatPage (part_004:331-342)
    /\ threadId = Null
    /\ chatMessages = << >>
    /\ query = << >>
    /\ isLoading = FALSE
    /\ error = FALSE
    /\ toolInfo = NoToolInfo
    /\ chatPc = "mount"
    /\ chatSaved = Null
    /\ chatCall = ChatIdle
    /\ queries = 0
    /\ toolInfoQuery = 0
    /\ lastOutcome = "none"

\* ------------------------------------------------------------ shared pieces
\* part_010:164-168, the query text sendMessage builds.
QueryContent(message, path) ==
    IF path # NoPath THEN message \o <<"\n[ATTACHMENT: ", path, "]">> ELSE message

\* part_010:171-176, the body sendMessage posts.  Its two parameters are the
\* message and the attachment path (part_010:151-154).
QueryRequestBody(message, path) ==
    [query |-> QueryContent(message, path),
     model |-> "gpt-4o",
     timeout_seconds |-> DefaultTimeoutSeconds,
     recursion_limit |-> DefaultRecursionLimit]

\* Faulty variant: initializeApp creates a thread whatever is stored.
KeepsStoredThreadNever(stored) == FALSE

\* Faulty variant: the blank test without trim.
SendRejectedNoTrim(input, file, path) ==
    \/ input = << >> /\ file = NoFile
    \/ file # NoFile /\ path = NoPath

\* Faulty variant: the answer is appended before the tool record.
ResponseMessagesAnswerFirst(resp, toolRef) ==
    LET hasTool == resp.body /\ resp.tool_info # << >>
        toolMessage == Msg("assistant_tool", resp.tool_info, toolRef, 0, NoPath)
        answer == Msg("assistant",
                      IF resp.response # << >> THEN resp.response ELSE NoResponseText,
                      0, IF hasTool THEN toolRef ELSE 0, NoPath)
    IN  (IF resp.body THEN <<answer>> ELSE << >>)
        \o (IF hasTool THEN <<toolMessage>> ELSE << >>)

\* Faulty variant: no answer is appended when the response text is empty.
ResponseMessagesNoFallback(resp, toolRef) ==
    LET hasTool == resp.body /\ resp.tool_info # << >>
        toolMessage == Msg("assistant_tool", resp.tool_info, toolRef, 0, NoPath)
        answer == Msg("assistant", resp.response, 0, IF hasTool THEN toolRef ELSE 0, NoPath)
    IN  (IF hasTool THEN <<toolMessage>> ELSE << >>)
        \o (IF resp.body /\ resp.response # << >> THEN <<answer>> ELSE << >>)

\* Faulty variant: a reset empties the list but leaves the counter.
CounterAfterResetKept(created, current) == current

\* Faulty variant: the uploaded path survives the response.
PathAfterResponseKept(path) == path

\* Faulty variant: uploadFile returns whatever file_path the response holds.
UploadThrowsOnRequestFailureOnly(outcome) == outcome = "failed"

\* Faulty variant: isProcessing is set back only on the success path.
ProcessingAfterSendNoFinally(threw) == threw

\* part_010:157-158, sendMessage asks for a thread when none is stored.
NeedsThread(stored) == stored = Null

\* AgentApp.tsx:149-150, initializeApp keeps a stored thread ID.
KeepsStoredThread(stored) == stored # Null

\* AgentApp.tsx:295-301, the two early returns of handleSendMessage.
SendRejected(input, file, path) ==
    \/ Trim(input) = << >> /\ file = NoFile
    \/ file # NoFile /\ path = NoPath

\* AgentApp.tsx:308-312
UserMessage(input, path) == Msg("user", input, 0, 0, path)

\* AgentApp.tsx:346-386, the messages one response appends: the tool record
\* (when tool_info is non-empty) and then the answer that refers to it.
ResponseMessages(resp, toolRef) ==
    LET hasTool == resp.body /\ resp.tool_info # << >>
        toolMessage == Msg("assistant_tool", resp.tool_info, toolRef, 0, NoPath)
        answer == Msg("assistant",
                      IF resp.response # << >> THEN resp.response ELSE NoResponseText,
                      0, IF hasTool THEN toolRef ELSE 0, NoPath)
    IN  (IF hasTool THEN <<toolMessage>> ELSE << >>)
        \o (IF resp.body THEN <<answer>> ELSE << >>)

\* AgentApp.tsx:374, the counter after one response.
NextToolReferenceId(current, resp) ==
    IF resp.body /\ resp.tool_info # << >> THEN current + 1 ELSE current

\* The thread_id a thread-creation response may carry: the ID of the new thread,
\* the empty string, or none (the field missing).
CreatedThreadIds == {nextThread, Null, Undefined}

\* A thread-creation response names a new thread.
IsThreadId(id) == id \notin {Null, Undefined, UndefinedText}

\* localStorage.setItem and the URL template turn their value into text
\* (part_010:161, 171; part_004:373, 379, 454): undefined becomes 'undefined',
\* a string stays as it is.
AsText(v) == IF v = Undefined THEN UndefinedText ELSE v

\* AgentApp.tsx:165-167, 230-232: a thread_id is stored only if truthy.
StoredAfterCreate(stored, id) == IF IsThreadId(id) THEN id ELSE stored

\* AgentApp.tsx:329-337, the stored thread ID after one response.
StoredAfterResponse(stored, resp) ==
    IF stored # Null /\ resp.thread_id # Null /\ stored # resp.thread_id
    THEN resp.thread_id ELSE stored

\* AgentApp.tsx:341, the attachment path after a response.
PathAfterResponse(path) == NoPath

\* AgentApp.tsx:395-397, the finally block of handleSendMessage: isProcessing
\* after the try block returned or threw.
ProcessingAfterSend(threw) == FALSE

\* The user can act once the startup effect has run, and the controls that start
\* a request are disabled while isProcessing (AgentApp.tsx:669, 677, 1150, 1167).
ControlsEnabled == initPc # "mount" /\ ~isProcessing

\* One more user interaction.
UserOp == ops < MaxOps /\ ops' = ops + 1

\* ------------------------------------------------- startup (AgentApp.tsx:144-174)
\* The effect starts initializeApp, which starts loadSettings (114-118).
initializeApp ==
    /\ UNCHANGED chatVars
    /\ ops' = ops
    /\ lastResp' = lastResp
    /\ resetAfterTool' = resetAfterTool
    /\ initThread' = initThread
    /\ initPc = "mount"
    /\ initPc' = "loadSettings"
    /\ isProcessing' = TRUE
    /\ lastOp' = "initializeApp"
    /\ UNCHANGED << messages, userInput, settings, currentToolReferenceId, attachment,
                    attachmentPath, localStorage, nextThread, savedThreadId, call,
                    expectedThread >>

\* getSettings returns or throws (118-140); what it returns only feeds config,
\* systemInfo and the model list, which no handler below reads.  initializeApp
\* then reads the stored thread ID (149) and either keeps it (150-153) or asks
\* for a thread (164).
initLoadSettingsDone ==
    /\ UNCHANGED chatVars
    /\ ops' = ops
    /\ lastResp' = lastResp
    /\ resetAfterTool' = resetAfterTool
    /\ initThread' = initThread
    /\ initPc = "loadSettings"
    /\ \E ok \in BOOLEAN :
         lastOp' = IF ok THEN "initLoadSettingsOk" ELSE "initLoadSettingsFailed"
    /\ isProcessing' = FALSE
    /\ savedThreadId' = localStorage
    /\ IF KeepsStoredThread(localStorage)
       THEN /\ messages' = << >>
            /\ initPc' = "done"
       ELSE /\ messages' = messages
            /\ initPc' = "createThread"
    /\ UNCHANGED << userInput, settings, currentToolReferenceId, attachment,
                    attachmentPath, localStorage, nextThread, call, expectedThread >>

\* resetConversation returns the response of the thread creation or throws
\* (part_010:96-105); a returned thread_id is stored if it is truthy
\* (AgentApp.tsx:164-167).
initCreateThreadDone ==
    /\ UNCHANGED chatVars
    /\ ops' = ops
    /\ lastResp' = lastResp
    /\ resetAfterTool' = resetAfterTool
    /\ initPc = "createThread"
    /\ initPc' = "done"
    /\ \/ \E id \in CreatedThreadIds :
            /\ localStorage' = StoredAfterCreate(localStorage, id)
            /\ nextThread' = IF IsThreadId(id) THEN nextThread + 1 ELSE nextThread
            /\ initThread' = IF IsThreadId(id) THEN id ELSE Null
            /\ lastOp' = IF IsThreadId(id) THEN "initCreateThreadOk" ELSE "initCreateThreadNoId"
       \/ /\ UNCHANGED << localStorage, nextThread, initThread >>
          /\ lastOp' = "initCreateThreadFailed"
    /\ UNCHANGED << messages, userInput, isProcessing, settings, currentToolReferenceId,
                    attachment, attachmentPath, savedThreadId, call, expectedThread >>

\* ------------------------------------------------------------ simple handlers
\* AgentApp.tsx:186-191; the select and the sliders are never disabled.
handleSettingsChange ==
    /\ UNCHANGED chatVars
    /\ UserOp
    /\ lastResp' = lastResp
    /\ resetAfterTool' = resetAfterTool
    /\ initThread' = initThread
    /\ initPc # "mount"
    /\ \/ \E v \in Models : settings' = [settings EXCEPT !.selectedModel = v]
       \/ \E v \in TimeoutChoices : settings' = [settings EXCEPT !.timeoutSeconds = v]
       \/ \E v \in RecursionChoices : settings' = [settings EXCEPT !.recursionLimit = v]
    /\ lastOp' = "handleSettingsChange"
    /\ UNCHANGED << messages, userInput, isProcessing, currentToolReferenceId, attachment,
                    attachmentPath, localStorage, nextThread, initPc, savedThreadId, call,
                    expectedThread >>

\* AgentApp.tsx:1160; the text field is disabled while isProcessing (1167).
setUserInput ==
    /\ UNCHANGED chatVars
    /\ UserOp
    /\ lastResp' = lastResp
    /\ resetAfterTool' = resetAfterTool
    /\ initThread' = initThread
    /\ ControlsEnabled
    /\ \E v \in InputChoices : userInput' = v
    /\ lastOp' = "setUserInput"
    /\ UNCHANGED << messages, isProcessing, settings, currentToolReferenceId, attachment,
                    attachmentPath, localStorage, nextThread, initPc, savedThreadId, call,
                    expectedThread >>

\* AgentApp.tsx:1131-1136, the close button of the attachment chip.
closeAttachmentChip ==
    /\ UNCHANGED chatVars
    /\ UserOp
    /\ lastResp' = lastResp
    /\ resetAfterTool' = resetAfterTool
    /\ initThread' = initThread
    /\ initPc # "mount"
    /\ attachment # NoFile
    /\ attachment' = NoFile
    /\ lastOp' = "closeAttachmentChip"
    /\ UNCHANGED << messages, userInput, isProcessing, settings, currentToolReferenceId,
                    attachmentPath, localStorage, nextThread, initPc, savedThreadId, call,
                    expectedThread >>

\* ------------------------------------- handleApplySettings (AgentApp.tsx:194-222)
handleApplySettings ==
    /\ UNCHANGED chatVars
    /\ UserOp
    /\ lastResp' = lastResp
    /\ resetAfterTool' = resetAfterTool
    /\ initThread' = initThread
    /\ ControlsEnabled
    /\ isProcessing' = TRUE
    /\ call' = [Idle EXCEPT !.h = "apply"]
    /\ lastOp' = "handleApplySettings"
    /\ UNCHANGED << messages, userInput, settings, currentToolReferenceId, attachment,
                    attachmentPath, localStorage, nextThread, initPc, savedThreadId,
                    expectedThread >>

\* updateSettings returns or throws; it replaces a falsy tool_count by 0
\* (part_010:85-88), so only a truthy tool_count that is not a number takes the
\* branch that reloads the settings (AgentApp.tsx:204-215).
updateSettingsDone ==
    /\ UNCHANGED chatVars
    /\ ops' = ops
    /\ lastResp' = lastResp
    /\ resetAfterTool' = resetAfterTool
    /\ initThread' = initThread
    /\ call.h = "apply"
    /\ \E outcome \in {"number", "notNumber", "failed"} :
         IF outcome = "notNumber"
         THEN /\ call' = [call EXCEPT !.h = "applyReload"]
              /\ isProcessing' = TRUE
              /\ lastOp' = "updateSettingsReload"
         ELSE /\ call' = Idle
              /\ isProcessing' = FALSE
              /\ lastOp' = IF outcome = "number" THEN "updateSettingsOk"
                                                 ELSE "updateSettingsFailed"
    /\ UNCHANGED << messages, userInput, settings, currentToolReferenceId, attachment,
                    attachmentPath, localStorage, nextThread, initPc, savedThreadId,
                    expectedThread >>

\* The nested loadSettings returns (114-141), then line 217.
applyLoadSettingsDone ==
    /\ UNCHANGED chatVars
    /\ ops' = ops
    /\ lastResp' = lastResp
    /\ resetAfterTool' = resetAfterTool
    /\ initThread' = initThread
    /\ call.h = "applyReload"
    /\ call' = Idle
    /\ isProcessing' = FALSE
    /\ \E ok \in BOOLEAN :
         lastOp' = IF ok THEN "applyLoadSettingsOk" ELSE "applyLoadSettingsFailed"
    /\ UNCHANGED << messages, userInput, settings, currentToolReferenceId, attachment,
                    attachmentPath, localStorage, nextThread, initPc, savedThreadId,
                    expectedThread >>

\* --------------------------------- handleResetConversation (AgentApp.tsx:225-240)
handleResetConversation ==
    /\ UNCHANGED chatVars
    /\ UserOp
    /\ lastResp' = lastResp
    /\ resetAfterTool' = resetAfterTool
    /\ initThread' = initThread
    /\ ControlsEnabled
    /\ isProcessing' = TRUE
    /\ call' = [Idle EXCEPT !.h = "reset"]
    /\ lastOp' = "handleResetConversation"
    /\ UNCHANGED << messages, userInput, settings, currentToolReferenceId, attachment,
                    attachmentPath, localStorage, nextThread, initPc, savedThreadId,
                    expectedThread >>

\* AgentApp.tsx:743-745, the entries of the tool panel, in panel order.
IsTool(m) == m.role = "assistant_tool"
ToolMessages == SelectSeq(messages, IsTool)

\* AgentApp.tsx:233, reached only when resetConversation did not throw (228).
MessagesAfterReset(created, current) == IF created THEN << >> ELSE current

\* AgentApp.tsx:234, reached only when resetConversation did not throw (228).
CounterAfterReset(created, current) == IF created THEN 1 ELSE current

\* resetConversation returns the response of the thread creation or throws
\* (AgentApp.tsx:228-239); the list and the counter are reset whenever it
\* returned, the thread_id is stored only if it is truthy (230-232).
resetConversationDone ==
    /\ UNCHANGED chatVars
    /\ ops' = ops
    /\ lastResp' = lastResp
    /\ initThread' = initThread
    /\ call.h = "reset"
    /\ call' = Idle
    /\ isProcessing' = FALSE
    /\ \/ \E id \in CreatedThreadIds :
            /\ localStorage' = StoredAfterCreate(localStorage, id)
            /\ nextThread' = IF IsThreadId(id) THEN nextThread + 1 ELSE nextThread
            /\ messages' = MessagesAfterReset(TRUE, messages)
            /\ currentToolReferenceId' = CounterAfterReset(TRUE, currentToolReferenceId)
            /\ expectedThread' = Null
            /\ resetAfterTool' = (ToolMessages # << >>)
            /\ lastOp' = IF IsThreadId(id) THEN "resetConversationOk"
                                      ELSE "resetConversationNoId"
       \/ /\ messages' = MessagesAfterReset(FALSE, messages)
          /\ currentToolReferenceId' = CounterAfterReset(FALSE, currentToolReferenceId)
          /\ UNCHANGED << localStorage, nextThread, expectedThread, resetAfterTool >>
          /\ lastOp' = "resetConversationFailed"
    /\ UNCHANGED << userInput, settings, attachment, attachmentPath, initPc, savedThreadId >>

\* ---------------------------------------- handleFileUpload (AgentApp.tsx:243-274)
handleFileUpload ==
    /\ UNCHANGED chatVars
    /\ UserOp
    /\ lastResp' = lastResp
    /\ resetAfterTool' = resetAfterTool
    /\ initThread' = initThread
    /\ ControlsEnabled
    /\ \E file \in Files : attachment' = file
    /\ isProcessing' = TRUE
    /\ call' = [Idle EXCEPT !.h = "upload"]
    /\ lastOp' = "handleFileUpload"
    /\ UNCHANGED << messages, userInput, settings, currentToolReferenceId,
                    attachmentPath, localStorage, nextThread, initPc, savedThreadId,
                    expectedThread >>

\* The outcomes of the upload request: a response with file_path, a response
\* without it, or a failed request.
UploadOutcomes == {"path", "noPath", "failed"}

\* part_010:132-147, uploadFile throws when the request fails or the response
\* has no file_path.
UploadThrows(outcome) == outcome # "path"

\* part_010:136, the file_path of the response.
ReturnedPath(outcome) == IF outcome = "path" THEN UploadedPath ELSE NoPath

\* uploadFile returns the path or throws (AgentApp.tsx:254-272).
uploadFileDone ==
    /\ UNCHANGED chatVars
    /\ ops' = ops
    /\ lastResp' = lastResp
    /\ resetAfterTool' = resetAfterTool
    /\ initThread' = initThread
    /\ call.h = "upload"
    /\ call' = Idle
    /\ isProcessing' = FALSE
    /\ \E outcome \in UploadOutcomes :
         /\ lastOp' = CASE outcome = "path" -> "uploadFileOk"
                        [] outcome = "noPath" -> "uploadFileNoPath"
                        [] OTHER -> "uploadFileFailed"
         /\ IF ~UploadThrows(outcome)
            THEN /\ attachmentPath' = ReturnedPath(outcome)
                 /\ UNCHANGED << attachment, messages >>
            ELSE /\ attachment' = NoFile
                 /\ messages' = Append(messages, Msg("assistant", UploadErrorText, 0, 0, NoPath))
                 /\ attachmentPath' = attachmentPath
    /\ UNCHANGED << userInput, settings, currentToolReferenceId, localStorage, nextThread,
                    initPc, savedThreadId, expectedThread >>

\* --------------------------------------- handleSendMessage (AgentApp.tsx:293-398)
\* The handler up to its first await.  It is started by Enter in the text field
\* (1161-1166) or by the send button (1198-1199).  An accepted message is
\* appended and sendMessage starts: it posts the query to the stored thread, or
\* first asks for a thread when none is stored (part_010:157-162).
handleSendMessage ==
    /\ UNCHANGED chatVars
    /\ UserOp
    /\ lastResp' = lastResp
    /\ resetAfterTool' = resetAfterTool
    /\ initThread' = initThread
    /\ ControlsEnabled
    /\ IF SendRejected(userInput, attachment, attachmentPath)
       THEN /\ lastOp' = "sendIgnored"
            /\ UNCHANGED << messages, userInput, isProcessing, call, expectedThread >>
       ELSE /\ messages' = Append(messages, UserMessage(userInput, attachmentPath))
            /\ userInput' = << >>
            /\ isProcessing' = TRUE
            /\ lastOp' = "sendAccepted"
            /\ LET started == [Idle EXCEPT !.userInput = userInput,
                                           !.attachmentPath = attachmentPath,
                                           !.toolRef = currentToolReferenceId,
                                           !.settings = settings]
               IN IF NeedsThread(localStorage)
                  THEN /\ call' = [started EXCEPT !.h = "sendCreateThread"]
                       /\ expectedThread' = expectedThread
                  ELSE /\ call' = [started EXCEPT
                                     !.h = "sendQuery",
                                     !.thread = localStorage,
                                     !.posts = 1,
                                     !.request = QueryRequestBody(userInput, attachmentPath)]
                       /\ expectedThread' = IF expectedThread = Null THEN localStorage
                                                                     ELSE expectedThread
    /\ UNCHANGED << settings, currentToolReferenceId, attachment, attachmentPath,
                    localStorage, nextThread, initPc, savedThreadId >>

\* createThread inside sendMessage returns or throws (part_010:159-162, 179-182).
\* The returned thread_id is stored and queried as it is, an empty one too,
\* and a missing one as the text 'undefined' (160-171); on a throw handleSendMessage appends the error text
\* (AgentApp.tsx:387-397).
sendCreateThreadDone ==
    /\ UNCHANGED chatVars
    /\ ops' = ops
    /\ lastResp' = lastResp
    /\ resetAfterTool' = resetAfterTool
    /\ initThread' = initThread
    /\ call.h = "sendCreateThread"
    /\ \/ \E id \in CreatedThreadIds :
            /\ localStorage' = AsText(id)
            /\ nextThread' = IF IsThreadId(id) THEN nextThread + 1 ELSE nextThread
            /\ call' = [call EXCEPT
                          !.h = "sendQuery",
                          !.thread = AsText(id),
                          !.posts = 1,
                          !.request = QueryRequestBody(call.userInput, call.attachmentPath)]
            /\ expectedThread' = IF expectedThread = Null THEN AsText(id)
                                                          ELSE expectedThread
            /\ lastOp' = IF IsThreadId(id) THEN "sendCreateThreadOk" ELSE "sendCreateThreadNoId"
            /\ UNCHANGED << messages, isProcessing >>
       \/ /\ messages' = Append(messages, Msg("assistant", SendErrorText, 0, 0, NoPath))
          /\ isProcessing' = ProcessingAfterSend(TRUE)
          /\ call' = Idle
          /\ lastOp' = "sendCreateThreadFailed"
          /\ UNCHANGED << localStorage, nextThread, expectedThread >>
    /\ UNCHANGED << userInput, settings, currentToolReferenceId, attachment,
                    attachmentPath, initPc, savedThreadId >>

\* The thread IDs a query response may report: none (QueryResponse declares no
\* thread_id), the thread that was queried, or a thread the backend just made.
ReportedThreads == {Null, call.thread, nextThread}

\* The responses of the query endpoint; body is FALSE for an empty response body.
Responses ==
    [body : {TRUE}, response : ResponseTexts, tool_info : ToolInfos, thread_id : ReportedThreads]
    \cup {NoResponse}

\* The query returns (AgentApp.tsx:328-386, 395-397).
queryDone ==
    /\ UNCHANGED chatVars
    /\ ops' = ops
    /\ initThread' = initThread
    /\ call.h = "sendQuery"
    /\ \E resp \in Responses :
         /\ localStorage' = StoredAfterResponse(localStorage, resp)
         /\ nextThread' = IF resp.thread_id = nextThread THEN nextThread + 1 ELSE nextThread
         /\ expectedThread' = IF localStorage' # localStorage THEN localStorage'
                                                                ELSE expectedThread
         /\ attachment' = NoFile
         /\ attachmentPath' = PathAfterResponse(attachmentPath)
         /\ messages' = messages \o ResponseMessages(resp, call.toolRef)
         /\ currentToolReferenceId' = NextToolReferenceId(currentToolReferenceId, resp)
         /\ lastResp' = resp
         /\ resetAfterTool' = resetAfterTool
         /\ lastOp' = IF resp.body THEN "queryOk" ELSE "queryEmpty"
    /\ isProcessing' = ProcessingAfterSend(FALSE)
    /\ call' = Idle
    /\ UNCHANGED << userInput, settings, initPc, savedThreadId >>

\* The query fails, or its response is null and reading response.thread_id
\* throws (332, reached when the stored ID is truthy at 331): the catch block appends the error text (AgentApp.tsx:387-397).
queryFailed ==
    /\ UNCHANGED chatVars
    /\ ops' = ops
    /\ lastResp' = lastResp
    /\ resetAfterTool' = resetAfterTool
    /\ initThread' = initThread
    /\ call.h = "sendQuery"
    /\ messages' = Append(messages, Msg("assistant", SendErrorText, 0, 0, NoPath))
    /\ isProcessing' = ProcessingAfterSend(TRUE)
    /\ call' = Idle
    /\ lastOp' = "queryFailed"
    /\ UNCHANGED << userInput, settings, currentToolReferenceId, attachment, attachmentPath,
                    localStorage, nextThread, initPc, savedThreadId, expectedThread >>

\* ------------------------------------------------------------ specification
Next ==
    \/ initializeApp
    \/ initLoadSettingsDone
    \/ initCreateThreadDone
    \/ handleSettingsChange
    \/ setUserInput
    \/ closeAttachmentChip
    \/ handleApplySettings
    \/ updateSettingsDone
    \/ applyLoadSettingsDone
    \/ handleResetConversation
    \/ resetConversationDone
    \/ handleFileUpload
    \/ uploadFileDone
    \/ handleSendMessage
    \/ sendCreateThreadDone
    \/ queryDone
    \/ queryFailed

Spec == Init /\ [][Next]_vars

\* Every request eventually completes, and React runs the mount effect: each
\* step that consumes the outcome of a request is taken once it stays enabled.
RequestsComplete ==
    /\ WF_vars(initializeApp)
    /\ WF_vars(initLoadSettingsDone)
    /\ WF_vars(initCreateThreadDone)
    /\ WF_vars(updateSettingsDone)
    /\ WF_vars(applyLoadSettingsDone)
    /\ WF_vars(resetConversationDone)
    /\ WF_vars(uploadFileDone)
    /\ WF_vars(sendCreateThreadDone)
    /\ WF_vars(queryDone \/ queryFailed)

\* The same steps with the shorter session.
LiveBound == ops' <= MaxLiveOps

LiveNext ==
    \/ initializeApp
    \/ initLoadSettingsDone
    \/ initCreateThreadDone
    \/ handleSettingsChange /\ LiveBound
    \/ setUserInput /\ LiveBound
    \/ closeAttachmentChip /\ LiveBound
    \/ handleApplySettings /\ LiveBound
    \/ updateSettingsDone
    \/ applyLoadSettingsDone
    \/ handleResetConversation /\ LiveBound
    \/ resetConversationDone
    \/ handleFileUpload /\ LiveBound
    \/ uploadFileDone
    \/ handleSendMessage /\ LiveBound
    \/ sendCreateThreadDone
    \/ queryDone
    \/ queryFailed

SpecLive == Init /\ [][LiveNext]_vars /\ RequestsComplete

\* ------------------------------------------------------------- type and sanity
TypeOK ==
    /\ isProcessing \in BOOLEAN
    /\ ops \in 0..MaxOps
    /\ localStorage \in {UndefinedText} \cup 0..(nextThread - 1)
    /\ initPc \in {"mount", "loadSettings", "createThread", "done"}
    /\ call.h \in {"none", "apply", "applyReload", "reset", "upload",
                   "sendCreateThread", "sendQuery"}

\* A user handler is in flight only while isProcessing, which is what lets one
\* slot (call) hold the handler in flight.
HandlerImpliesProcessing == call.h # "none" => isProcessing

\* =================================================================== ChatPage
\* Faulty variant: the stored tool info survives the start of a new query.
ToolInfoKeptAtSend(current) == current

\* part_004:411, handleSendMessage clears the stored tool info.
ToolInfoAtSend(current) == NoToolInfo

\* part_004:587-599 with ChatMessage (part_006:97): the message that shows the
\* tool info.
ToolInfoShownOn(i) ==
    /\ i = Len(chatMessages)
    /\ chatMessages[i].role = "assistant"
    /\ toolInfo # NoToolInfo

\* part_004:642, 658: the input controls are disabled while isLoading.
ChatControlsEnabled == chatPc # "mount" /\ ~isLoading

\* ---------------------------------------------------- initChat (part_004:347-389)
initChat ==
    /\ chatPc = "mount"
    /\ chatPc' = "getSettings"
    /\ UNCHANGED << agentVars, localStorage, nextThread, ops, threadId, chatMessages,
                    query, isLoading, error, toolInfo, chatSaved, chatCall, queries,
                    toolInfoQuery, lastOutcome >>

\* getSettings returns (351-380) or throws (381-384).
chatGetSettingsDone ==
    /\ chatPc = "getSettings"
    /\ \/ /\ chatSaved' = localStorage
          /\ chatPc' = IF localStorage # Null THEN "getThread" ELSE "createThread"
          /\ error' = error
       \/ /\ chatPc' = "failed"
          /\ error' = TRUE
          /\ chatSaved' = chatSaved
    /\ UNCHANGED << agentVars, localStorage, nextThread, ops, threadId, chatMessages,
                    query, isLoading, toolInfo, chatCall, queries, toolInfoQuery,
                    lastOutcome >>

\* getThread returns the stored thread (362-364) or throws, and initChat asks for
\* a new thread (365-371).  When it returns null, line 363 has set threadId
\* before reading threadData.messages throws at 364.
chatGetThreadDone ==
    /\ chatPc = "getThread"
    /\ \/ \E history \in ThreadHistories :
            /\ threadId' = chatSaved
            /\ chatMessages' = history
            /\ chatPc' = "done"
       \/ /\ chatPc' = "createThread"
          /\ UNCHANGED << threadId, chatMessages >>
       \/ /\ chatPc' = "createThread"
          /\ threadId' = chatSaved
          /\ chatMessages' = chatMessages
    /\ UNCHANGED << agentVars, localStorage, nextThread, ops, query, isLoading, error,
                    toolInfo, chatSaved, chatCall, queries, toolInfoQuery, lastOutcome >>

\* createThread returns (371-373, 377-379) or throws (381-384); the returned
\* thread_id is kept and stored as it is, an empty one too; a missing one is
\* kept as undefined and stored as the text 'undefined'.
chatCreateThreadDone ==
    /\ chatPc = "createThread"
    /\ \/ \E id \in CreatedThreadIds :
            /\ threadId' = id
            /\ localStorage' = AsText(id)
            /\ nextThread' = IF IsThreadId(id) THEN nextThread + 1 ELSE nextThread
            /\ chatPc' = "done"
            /\ error' = error
       \/ /\ chatPc' = "failed"
          /\ error' = TRUE
          /\ UNCHANGED << threadId, localStorage, nextThread >>
    /\ UNCHANGED << agentVars, ops, chatMessages, query, isLoading, toolInfo, chatSaved,
                    chatCall, queries, toolInfoQuery, lastOutcome >>

\* ------------------------------------------------------------ simple handlers
\* part_004:641
setQuery ==
    /\ UserOp
    /\ ChatControlsEnabled
    /\ \E v \in InputChoices : query' = v
    /\ UNCHANGED << agentVars, localStorage, nextThread, threadId, chatMessages,
                    isLoading, error, toolInfo, chatPc, chatSaved, chatCall, queries,
                    toolInfoQuery, lastOutcome >>

\* part_004:615-621, the button of the error banner.
dismissError ==
    /\ UserOp
    /\ chatPc # "mount"
    /\ error
    /\ error' = FALSE
    /\ UNCHANGED << agentVars, localStorage, nextThread, threadId, chatMessages, query,
                    isLoading, toolInfo, chatPc, chatSaved, chatCall, queries,
                    toolInfoQuery, lastOutcome >>

\* ------------------------------------------- handleSendMessage (part_004:399-442)
chatHandleSendMessage ==
    /\ UserOp
    /\ ChatControlsEnabled
    /\ IF Trim(query) = << >> \/ isLoading
       THEN UNCHANGED << chatMessages, query, isLoading, error, toolInfo, chatCall,
                         queries, toolInfoQuery >>
       ELSE /\ chatMessages' = Append(chatMessages, ChatMsg("user", query, queries + 1))
            /\ query' = << >>
            /\ isLoading' = TRUE
            /\ error' = FALSE
            /\ toolInfo' = ToolInfoAtSend(toolInfo)
            /\ toolInfoQuery' = IF toolInfo' = NoToolInfo THEN 0 ELSE toolInfoQuery
            /\ queries' = queries + 1
            /\ chatCall' = [h |-> "query", thread |-> AsText(threadId), q |-> queries + 1]
    /\ UNCHANGED << agentVars, localStorage, nextThread, threadId, chatPc, chatSaved,
                    lastOutcome >>

\* queryAgent returns (421-430) or throws (431-438); finally 439-441.  The
\* error is set only for an AxiosError (434): not when the response is null
\* (reading response.response throws at 423) or the request rejects otherwise.
chatQueryDone ==
    /\ chatCall.h = "query"
    /\ \/ \E text \in ResponseTexts, calls \in ToolCalls :
            /\ chatMessages' = Append(chatMessages, ChatMsg("assistant", text, chatCall.q))
            /\ toolInfo' = IF calls # << >> THEN calls ELSE toolInfo
            /\ toolInfoQuery' = IF calls # << >> THEN chatCall.q ELSE toolInfoQuery
            /\ lastOutcome' = IF calls # << >> THEN "tools" ELSE "noTools"
            /\ error' = error
       \/ /\ \E isAxiosError \in BOOLEAN : error' = IF isAxiosError THEN TRUE ELSE error
          /\ lastOutcome' = "failed"
          /\ UNCHANGED << chatMessages, toolInfo, toolInfoQuery >>
    /\ isLoading' = FALSE
    /\ chatCall' = ChatIdle
    /\ UNCHANGED << agentVars, localStorage, nextThread, ops, threadId, query, chatPc,
                    chatSaved, queries >>

\* ---------------------------------------------- handleResetChat (part_004:445-462)
\* The reset button is disabled while isLoading or with no message (488).
handleResetChat ==
    /\ UserOp
    /\ ChatControlsEnabled
    /\ chatMessages # << >>
    /\ \E confirmed \in BOOLEAN :
         IF confirmed
         THEN /\ isLoading' = TRUE
              /\ chatCall' = [h |-> "deleteThread", thread |-> AsText(threadId), q |-> 0]
         ELSE UNCHANGED << isLoading, chatCall >>
    /\ UNCHANGED << agentVars, localStorage, nextThread, threadId, chatMessages, query,
                    error, toolInfo, chatPc, chatSaved, queries, toolInfoQuery,
                    lastOutcome >>

\* deleteThread returns, and createThread is asked (450-451), or throws (455-460).
chatDeleteThreadDone ==
    /\ chatCall.h = "deleteThread"
    /\ \/ /\ chatCall' = [chatCall EXCEPT !.h = "resetCreateThread"]
          /\ UNCHANGED << isLoading, error >>
       \/ /\ chatCall' = ChatIdle
          /\ isLoading' = FALSE
          /\ error' = TRUE
    /\ UNCHANGED << agentVars, localStorage, nextThread, ops, threadId, chatMessages,
                    query, toolInfo, chatPc, chatSaved, queries, toolInfoQuery,
                    lastOutcome >>

\* createThread returns (451-454) or throws (455-460); the returned thread_id
\* is kept and stored as it is, an empty one too; a missing one is kept as
\* undefined and stored as the text 'undefined'.
chatResetCreateThreadDone ==
    /\ chatCall.h = "resetCreateThread"
    /\ chatCall' = ChatIdle
    /\ isLoading' = FALSE
    /\ \/ \E id \in CreatedThreadIds :
            /\ threadId' = id
            /\ localStorage' = AsText(id)
            /\ nextThread' = IF IsThreadId(id) THEN nextThread + 1 ELSE nextThread
            /\ chatMessages' = << >>
            /\ error' = error
       \/ /\ error' = TRUE
          /\ UNCHANGED << threadId, localStorage, nextThread, chatMessages >>
    /\ UNCHANGED << agentVars, ops, query, toolInfo, chatPc, chatSaved, queries,
                    toolInfoQuery, lastOutcome >>

ChatNext ==
    \/ initChat
    \/ chatGetSettingsDone
    \/ chatGetThreadDone
    \/ chatCreateThreadDone
    \/ setQuery
    \/ dismissError
    \/ chatHandleSendMessage
    \/ chatQueryDone
    \/ handleResetChat
    \/ chatDeleteThreadDone
    \/ chatResetCreateThreadDone

SpecChat == Init /\ [][ChatNext]_vars

ChatTypeOK ==
    /\ isLoading \in BOOLEAN
    /\ error \in BOOLEAN
    /\ chatPc \in {"mount", "getSettings", "getThread", "createThread", "done", "failed"}
    /\ chatCall.h \in {"none", "query", "deleteThread", "resetCreateThread"}
    /\ chatCall.h # "none" => isLoading

\* ===================================================================== claims
\* Steps and states the claims below refer to.
ResetCompletes == call.h = "reset" /\ call'.h = "none"

\* The thread-creation request of the reset returned a response.
ResetReturns == lastOp' \in {"resetConversationOk", "resetConversationNoId"}

Blank(s) == \A i \in 1..Len(s) : s[i] = " "
\* The messages a step appends (empty when the step does not extend the list).
Appended ==
    IF Len(messages') >= Len(messages)
    THEN SubSeq(messages', Len(messages) + 1, Len(messages'))
    ELSE << >>
KeepsPrefix ==
    /\ Len(messages') >= Len(messages)
    /\ SubSeq(messages', 1, Len(messages)) = messages
QueryReturns == call.h = "sendQuery" /\ call'.h = "none" /\ lastOp' # "queryFailed"
SendCompletes == call.h \in {"sendCreateThread", "sendQuery"} /\ call'.h = "none"
Posts == call.posts = 0 /\ call'.posts = 1

\* ------------------------------------------------------------------------ C1
C1_EveryToolMessageIsFollowedByItsAnswer ==
    \A i \in 1..Len(messages) :
        IsTool(messages[i]) =>
            /\ i < Len(messages)
            /\ messages[i + 1].role = "assistant"
            /\ messages[i + 1].referencedToolId = messages[i].toolReferenceId

C1_ResponseStep ==
    QueryReturns =>
        /\ KeepsPrefix
        /\ IF lastResp'.tool_info # << >>
           THEN /\ Len(Appended) = 2
                /\ Appended[1].role = "assistant_tool"
                /\ Appended[1].content = lastResp'.tool_info
                /\ Appended[2].role = "assistant"
                /\ Appended[2].content =
                       (IF lastResp'.response # << >> THEN lastResp'.response
                                                      ELSE NoResponseText)
           ELSE \A i \in 1..Len(Appended) : ~IsTool(Appended[i])

\* C1: when a query response carries a non-empty tool_info, handleSendMessage
\* appends exactly one assistant_tool message whose content is that tool_info,
\* immediately followed by the answer of the same response; without tool_info it
\* appends no assistant_tool message.  So every assistant_tool message of the list
\* is directly followed by an assistant message whose referencedToolId is the
\* tool message's toolReferenceId.
C1_ToolInfoThenAnswer ==
    /\ []C1_EveryToolMessageIsFollowedByItsAnswer
    /\ [][C1_ResponseStep]_vars

C1_Witness ==
    /\ lastOp = "queryOk"
    /\ lastResp.tool_info # << >>
    /\ Len(messages) >= 3
    /\ IsTool(messages[Len(messages) - 1])

\* ------------------------------------------------------------------------ C2
C2_PostStep ==
    /\ Posts =>
         /\ IsThreadId(call'.thread)
         /\ call'.thread = localStorage'
         /\ call.h = "none" => localStorage # Null /\ call'.thread = localStorage
         /\ call.h = "sendCreateThread" =>
                /\ nextThread' = nextThread + 1
                /\ localStorage' = nextThread
    /\ (call.h = "none" /\ lastOp' = "sendAccepted" /\ localStorage = Null) =>
         /\ call'.h = "sendCreateThread"
         /\ call'.posts = 0

C2_StoredAfterPost ==
    (call.h = "sendQuery" \/ lastOp \in {"queryOk", "queryEmpty", "queryFailed"})
        => IsThreadId(localStorage)

\* C2: every query sendMessage posts goes to the thread ID that localStorage
\* holds at the moment of posting; with no stored ID sendMessage first creates a
\* thread and stores its ID; no query is posted without a thread ID, and the
\* stored ID is non-empty once sendMessage has posted its query.
C2_QueryGoesToStoredThread ==
    /\ [](C2_StoredAfterPost /\ (call.h = "sendQuery" => IsThreadId(call.thread)))
    /\ [][C2_PostStep]_vars

\* ------------------------------------------------------------------------ C3
\* C3 as stated: after startup, a stored ID means initialization created no
\* thread, and no stored ID means it created one (and stored its ID).
C3_AsStated ==
    initPc = "done" =>
        IF savedThreadId # Null THEN initThread = Null ELSE initThread # Null

C3_InitStep ==
    /\ (initPc = "loadSettings" /\ initPc' # "loadSettings") =>
         IF localStorage # Null
         THEN /\ initPc' = "done"
              /\ localStorage' = localStorage
              /\ nextThread' = nextThread
              /\ messages' = << >>
         ELSE /\ initPc' = "createThread"
              /\ localStorage' = localStorage
    /\ (initPc = "createThread" /\ initPc' # "createThread") =>
         /\ initPc' = "done"
         /\ \/ /\ nextThread' = nextThread + 1
               /\ initThread' = nextThread
               /\ localStorage' = nextThread
            \/ /\ nextThread' = nextThread
               /\ initThread' = Null
               /\ localStorage' = localStorage
    /\ (initPc' = "createThread" /\ initPc # "createThread") =>
         initPc = "loadSettings" /\ localStorage = Null
    /\ initPc = "done" => initPc' = "done" /\ initThread' = initThread

\* C3 (amended): at startup a stored threadId is kept - initialization creates
\* no thread, leaves the stored ID as it is and starts with an empty message
\* list; with no stored ID initialization makes exactly one thread-creation
\* request, and stores the returned thread_id when the request returns a
\* non-empty one; when the request fails or returns no thread_id,
\* initialization stores nothing.
C3_StartupThread ==
    /\ [](initPc = "done" /\ savedThreadId # Null => initThread = Null)
    /\ [][C3_InitStep]_vars

C3_Witness ==
    /\ lastOp = "initCreateThreadOk"
    /\ savedThreadId = Null
    /\ initThread # Null
    /\ localStorage = initThread

\* ------------------------------------------------------------------------ C4
\* C4: between two conversation resets all queries go to the same thread (the
\* thread changes only by a reset or when a response reports another
\* thread_id); in particular the first and the second query of a session go to
\* the same thread however the startup thread creation interleaves with the
\* first handleSendMessage.
C4_SameThreadBetweenResets ==
    call.h = "sendQuery" => call.thread = expectedThread

\* ------------------------------------------------------------------------ C5
C5_OneAnswer ==
    /\ KeepsPrefix
    /\ Len(Appended) >= 1
    /\ Cardinality({i \in 1..Len(Appended) : Appended[i].role = "assistant"}) = 1
    /\ LET answer == Appended[Len(Appended)]
       IN /\ answer.role = "assistant"
          /\ answer.content =
               IF lastOp' \in {"queryFailed", "sendCreateThreadFailed"} THEN SendErrorText
               ELSE IF lastResp'.response # << >> THEN lastResp'.response
               ELSE NoResponseText

C5_UserMessageIsLast ==
    /\ messages # << >>
    /\ messages[Len(messages)].role = "user"
    /\ messages[Len(messages)].content = call.userInput

\* C5 as stated: every accepted user message gets exactly one query request,
\* and when the request completes exactly one assistant message is appended.
C5_AsStated ==
    [][SendCompletes => call.posts = 1 /\ C5_UserMessageIsLast /\ C5_OneAnswer]_vars

C5_ExchangeStep ==
    /\ (call.h = "none" /\ call'.h \in {"sendCreateThread", "sendQuery"}) =>
         /\ messages' = Append(messages, Msg("user", userInput, 0, 0, attachmentPath))
         /\ call'.posts = IF call'.h = "sendQuery" THEN 1 ELSE 0
    /\ call'.posts > call.posts => Posts
    /\ SendCompletes =>
         /\ C5_UserMessageIsLast
         /\ call.posts = IF lastOp' = "sendCreateThreadFailed" THEN 0 ELSE 1
         /\ IF lastOp' = "queryEmpty" THEN messages' = messages ELSE C5_OneAnswer

\* C5 (amended): every user message appended by handleSendMessage gets at most
\* one query request - exactly one unless the thread creation that sendMessage
\* performs first (no thread ID stored) fails - and when the exchange completes
\* exactly one assistant message is appended after the user message: the
\* response text, the fallback text when the response text is empty, or the
\* error text when the thread creation or the query failed (or the response was
\* null while a thread ID is stored); a successful response with an empty body,
\* or a null one while the stored thread ID is empty, appends nothing.
C5_OneExchangePerUserMessage == [][C5_ExchangeStep]_vars

C5_Witness ==
    /\ lastOp = "queryOk"
    /\ lastResp.response = << >>
    /\ Len(messages) >= 2
    /\ messages[Len(messages)].content = NoResponseText

\* ------------------------------------------------------------------------ C6
\* C6: the query request carries the model, the timeout and the recursion limit
\* selected in the settings panel when the message was sent.
C6_RequestCarriesSettings ==
    call.h = "sendQuery" =>
        /\ call.request.model = call.settings.selectedModel
        /\ call.request.timeout_seconds = call.settings.timeoutSeconds
        /\ call.request.recursion_limit = call.settings.recursionLimit

\* ------------------------------------------------------------------------ C7
\* C7: ChatPage shows tool-call information on at most one message: only on the
\* last message, only if it is an assistant message, and only if the query that
\* completed last returned tool_calls; starting a query clears the stored tool
\* info, so the tool info of an earlier query is never shown on the answer of a
\* later query.
C7_ToolInfoOnLatestAnswerOnly ==
    /\ Cardinality({i \in 1..Len(chatMessages) : ToolInfoShownOn(i)}) <= 1
    /\ \A i \in 1..Len(chatMessages) :
         ToolInfoShownOn(i) =>
            /\ i = Len(chatMessages)
            /\ chatMessages[i].role = "assistant"
            /\ lastOutcome = "tools"
            /\ toolInfoQuery >= chatMessages[i].q
    /\ chatCall.h = "query" => toolInfo = NoToolInfo

C7_Witness ==
    /\ queries >= 2
    /\ toolInfoQuery = 2
    /\ ToolInfoShownOn(Len(chatMessages))
    /\ chatMessages[Len(chatMessages)].q = 2

\* ------------------------------------------------------------------------ C8
C8_IgnoredStep ==
    ( /\ ops' = ops + 1
      /\ lastOp' \in {"sendIgnored", "sendAccepted"}
      /\ \/ Blank(userInput) /\ attachment = NoFile
         \/ attachment # NoFile /\ attachmentPath = NoPath )
    => UNCHANGED << messages, userInput, isProcessing, call >>

\* C8: handleSendMessage appends no message and issues no request when the
\* input is blank (empty or whitespace only) with no attachment selected, or
\* when an attachment is selected whose upload path is still empty; messages,
\* userInput and isProcessing stay as they are.
C8_BlankSendIsIgnored == [][C8_IgnoredStep]_vars

C8_Witness ==
    /\ lastOp = "sendIgnored"
    /\ userInput # << >>
    /\ Blank(userInput)
    /\ attachment = NoFile

\* ------------------------------------------------------------------------ C9
\* C9: in every reachable state a non-empty attachmentPath implies that an
\* attachment is selected.
C9_PathImpliesAttachment == attachmentPath # NoPath => attachment # NoFile

\* ----------------------------------------------------------------------- C10
\* The numbering of the list: panel entry #k carries toolReferenceId k, an
\* answer refers to the panel entry just before it, no number is used twice,
\* and the counter is the number the next tool record will get.
C10_Numbering ==
    /\ \A k \in 1..Len(ToolMessages) : ToolMessages[k].toolReferenceId = k
    /\ \A i \in 1..Len(messages) :
         (messages[i].role = "assistant" /\ messages[i].referencedToolId # 0) =>
            /\ i > 1
            /\ IsTool(messages[i - 1])
            /\ messages[i].referencedToolId =
                 Len(SelectSeq(SubSeq(messages, 1, i - 1), IsTool))
    /\ \A i, j \in 1..Len(messages) :
         (IsTool(messages[i]) /\ IsTool(messages[j]) /\ i # j) =>
            messages[i].toolReferenceId # messages[j].toolReferenceId
    /\ currentToolReferenceId = Len(ToolMessages) + 1

\* A reset that returns starts the numbering again; a failed one keeps it.
C10_ResetStep ==
    ResetCompletes =>
        IF ResetReturns
        THEN messages' = << >> /\ currentToolReferenceId' = 1
        ELSE UNCHANGED << messages, currentToolReferenceId >>

\* C10: after any sequence of sends, uploads and conversation resets the k-th
\* assistant_tool message of the list (panel entry #k) has toolReferenceId k, an
\* answer's referencedToolId is the panel number of the tool message its
\* response produced, and no two tool messages share a toolReferenceId; the
\* counter that numbers the next tool message is one more than the number of
\* tool messages in the list, and returns to 1 when a reset empties the list.
C10_ToolReferenceNumbers ==
    /\ []C10_Numbering
    /\ [][C10_ResetStep]_vars

\* A tool record, then a reset that emptied the list, then a response with
\* tool_info: the new record is panel entry #1 again and its answer refers to it.
C10_Witness ==
    /\ resetAfterTool
    /\ lastOp = "queryOk"
    /\ lastResp.tool_info # << >>
    /\ Len(ToolMessages) = 1
    /\ ToolMessages[1].toolReferenceId = 1
    /\ messages[Len(messages)].referencedToolId = 1
    /\ currentToolReferenceId = 2

\* ----------------------------------------------------------------------- C11
\* The requests of AgentApp in flight: the startup effect's (getSettings, then
\* the thread creation) and the user handler's.
StartupRequestInFlight == initPc \in {"loadSettings", "createThread"}
HandlerRequestInFlight == call.h # "none"

\* C11: while any backend request started by AgentApp is in flight (settings
\* load, settings apply, thread creation at startup or on reset, file upload,
\* query) isProcessing is true, so no second request can be started: at most
\* one AgentApp request is in flight at any time.
C11_RequestImpliesProcessing ==
    /\ (StartupRequestInFlight \/ HandlerRequestInFlight) => isProcessing
    /\ ~(StartupRequestInFlight /\ HandlerRequestInFlight)

\* ----------------------------------------------------------------------- C12
C12_ResetStep ==
    ResetCompletes =>
        /\ isProcessing' = FALSE
        /\ IF ResetReturns
           THEN /\ messages' = << >>
                /\ currentToolReferenceId' = 1
                /\ localStorage' = nextThread
                /\ localStorage' # localStorage
           ELSE UNCHANGED << messages, currentToolReferenceId, localStorage >>

\* C12: when the thread creation of handleResetConversation succeeds, messages
\* becomes empty, the tool reference counter returns to 1 and the stored
\* threadId becomes the new thread's ID; when it fails, messages, the counter
\* and the stored threadId are unchanged; in both cases isProcessing ends false.
C12_ResetConversation == [][C12_ResetStep]_vars

\* ----------------------------------------------------------------------- C13
C13_AttachmentStep ==
    /\ QueryReturns => attachment' = NoFile /\ attachmentPath' = NoPath
    /\ (SendCompletes /\ ~QueryReturns) => UNCHANGED << attachment, attachmentPath >>

\* After a response the next message carries a path only if a file was uploaded
\* since.
C13_NoPathAfterResponse ==
    lastOp \in {"queryOk", "queryEmpty"} => attachment = NoFile /\ attachmentPath = NoPath

\* C13: after a query completes successfully the attachment state is reset
\* (attachment null, attachmentPath empty), so the uploaded path accompanies
\* only the message it was sent with; after a failed query attachment and
\* attachmentPath are left as they were.
C13_AttachmentResetAfterQuery ==
    /\ []C13_NoPathAfterResponse
    /\ [][C13_AttachmentStep]_vars

C13_Witness ==
    /\ lastOp = "queryOk"
    /\ Len(messages) >= 2
    /\ \E i \in 1..Len(messages) :
         messages[i].role = "user" /\ messages[i].attachmentPath # NoPath
    /\ attachmentPath = NoPath
    /\ attachment = NoFile

\* ----------------------------------------------------------------------- C14
UploadCompletes == call.h = "upload" /\ call'.h = "none"

C14_UploadStep ==
    UploadCompletes =>
        /\ isProcessing' = FALSE
        /\ IF lastOp' = "uploadFileOk"
           THEN /\ attachmentPath' = UploadedPath
                /\ messages' = messages
           ELSE /\ attachment' = NoFile
                /\ messages' = Append(messages, Msg("assistant", UploadErrorText, 0, 0, NoPath))

\* C14: when the upload of handleFileUpload succeeds, attachmentPath becomes the
\* path the backend returned and no message is appended; when it fails
\* (a response without file_path included) the selected attachment is cleared
\* and exactly one assistant error message is appended; in both cases
\* isProcessing ends false.
C14_FileUpload == [][C14_UploadStep]_vars

C14_Witness ==
    /\ lastOp = "uploadFileNoPath"
    /\ attachment = NoFile
    /\ messages # << >>
    /\ messages[Len(messages)].content = UploadErrorText
    /\ ~isProcessing

\* ----------------------------------------------------------------------- C15
\* The request of the handler that set isProcessing completes in this step.
HandlerCompletes ==
    \/ initPc = "loadSettings" /\ initPc' # "loadSettings"
    \/ call.h # "none" /\ call'.h = "none"

C15_CompletionStep == HandlerCompletes => isProcessing' = FALSE

\* C15: every handler that sets isProcessing to true (loadSettings,
\* handleApplySettings, handleResetConversation, handleFileUpload,
\* handleSendMessage) sets it back to false when its request completes, on the
\* success path and on every failure path; so, provided every request
\* eventually completes, isProcessing is eventually false.
C15_ProcessingEnds ==
    /\ [][C15_CompletionStep]_vars
    /\ (isProcessing ~> ~isProcessing)

C15_Witness ==
    /\ lastOp = "queryFailed"
    /\ ~isProcessing
    /\ call.h = "none"

\* ----------------------------------------------------------------------- C16
InitChatFinishes == chatPc \notin {"done", "failed"} /\ chatPc' = "done"

C16_InitChatStep ==
    \* the stored thread is loaded and its ID kept
    /\ (chatPc = "getThread" /\ chatPc' = "done") =>
         /\ threadId' = chatSaved
         /\ chatMessages' \in ThreadHistories
         /\ localStorage' = localStorage
    \* loading failed: a new thread replaces the stored one, no message is loaded
    /\ (chatPc = "createThread" /\ chatPc' = "done" /\ chatSaved # Null) =>
         /\ threadId' \in CreatedThreadIds
         /\ localStorage' = AsText(threadId')
         /\ localStorage' # chatSaved
         /\ chatMessages' = chatMessages
    \* initialization finished without error
    /\ InitChatFinishes => AsText(threadId') = localStorage'

\* C16: ChatPage initialization with a stored thread ID loads that thread's
\* messages and keeps the stored ID; if loading fails a new thread is created,
\* its ID replaces the stored one and no messages are loaded; whenever
\* initialization finishes without error the threadId state equals the
\* threadId value in localStorage.
C16_InitChatKeepsThreadInSync == [][C16_InitChatStep]_vars
====
